---- MODULE Spec2Model ----
(***************************************************************************)
(* Model of the layer stores of src/layer_store.py (SetLayerStore,         *)
(* AdditiveLayerStore, SequenceLayerStore), of the UndoTracker of           *)
(* src/undo.py and of the ReplayTracker of src/replay.py.  Every public    *)
(* method is one action; the method bodies are operators over the values   *)
(* of the fields so that a method calling another method (special ->       *)
(* erase) reuses it.  Each class has its own specification.                *)
(*                                                                         *)
(* A colour is modelled by the sequence of layers applied to the base      *)
(* colour so far (<<>> is the base colour itself): two colours are equal   *)
(* exactly when the same layers were applied in the same order the same    *)
(* number of times.                                                        *)
(***************************************************************************)
EXTENDS Integers, Sequences, FiniteSets

VARIABLES
    layerArr,            \* SequenceLayerStore.layerArr   (ArraySortedList of ListItem)
    layerCircularQueue,  \* AdditiveLayerStore.layerCircularQueue
    tempCircularQueue,   \* AdditiveLayerStore.tempCircularQueue
    layerStack,          \* SetLayerStore.layerStack      (ArrayStack(1))
    is_special,          \* SetLayerStore.is_special
    op,                  \* name of the last method called ("init" before any call)
    arg,                 \* its layer argument (NoLayer when it takes none)
    ret,                 \* its return value: "True", "False" or "None"
    color,               \* the colour the last call returned if it was a get_color, else BaseColor
    before,              \* the store's content when the last method was entered
    held,                \* SetLayerStore: argument of the last add not followed by an erase
    specialCalls,        \* SetLayerStore: number of special() calls made so far
    undoArr,             \* UndoTracker.undoArr  (ArrayStack of actions)
    redoArr,             \* UndoTracker.redoArr  (ArrayStack of actions)
    retAction,           \* the action the last undo/redo returned (NoAction for None)
    calls,               \* the undo_apply/redo_apply calls the last method made, in order
    added,               \* UndoTracker: the actions passed to add_action so far
    repeated,            \* UndoTracker: some action was passed to add_action twice
    addOrder,            \* UndoTracker: the actions in the order of their first add_action
    redoQueue,           \* ReplayTracker.redoQueue (CircularQueue of actions)
    undoBool,            \* ReplayTracker.undoBool  (CircularQueue of is_undo flags)
    recorded,            \* ReplayTracker: the <<action, is_undo>> pairs taken into redoQueue so far
    played               \* ReplayTracker: the calls made by play_next_action so far, in order

vars == <<layerArr, layerCircularQueue, tempCircularQueue, layerStack, is_special,
          op, arg, ret, color, before, held, specialCalls,
          undoArr, redoArr, retAction, calls, added, repeated, addOrder,
          redoQueue, undoBool, recorded, played>>

\* the variables of the trackers of src/undo.py and src/replay.py
trackerVars == <<undoArr, redoArr, retAction, calls, added, repeated, addOrder,
                 redoQueue, undoBool, recorded, played>>

----------------------------------------------------------------------------
(* Bounds *)

\* number of layer types registered in the registry
NumLayers == 3

\* slots of the registry array that hold no layer
EmptySlots == 1

\* capacity of the two queues of AdditiveLayerStore (2000 in the source)
AdditiveCapacity == 3

\* number of SetLayerStore.special calls that are counted
MaxSpecialCalls == 3

\* number of distinct PaintAction objects
NumActions == 3

\* capacity of the two stacks of UndoTracker (10000 in the source)
UndoCapacity == 2

\* capacity of the two queues of ReplayTracker (10000 in the source)
ReplayCapacity == 3

\* number of actions a ReplayTracker records; add_action is then only called on full queues
MaxRecorded == 4

----------------------------------------------------------------------------
(* Layer registry (layer_util.get_layers, layers.py) *)

Layers == 0 .. (NumLayers - 1)

NoLayer == -1

\* len(get_layers()): the registry array, empty slots included
RegistrySlots == NumLayers + EmptySlots

\* rank of the layer's name in lexicographic order; neighbouring indices are
\* swapped so that name order differs from index order
LayerName(i) ==
    IF i % 2 = 0
    THEN (IF i + 1 < NumLayers THEN i + 1 ELSE i)
    ELSE i - 1

\* layer.apply(start, timestamp, x, y)
Apply(layer, start) == Append(start, layer)

BaseColor == << >>

----------------------------------------------------------------------------
(* data_structures: ListItem and ArraySortedList *)

ListItem(value, key) == [value |-> value, key |-> key]

\* ArraySortedList.__contains__: equality of value and key
Contains(arr, item) == \E i \in 1 .. Len(arr) : arr[i] = item

\* position (1-based) at which an item with this key is inserted
IndexToAdd(arr, item) ==
    1 + Cardinality({i \in 1 .. Len(arr) : arr[i].key < item.key})

\* ArraySortedList.add: insert keeping the keys ascending
SortedAdd(arr, item) ==
    LET p == IndexToAdd(arr, item)
    IN  SubSeq(arr, 1, p - 1) \o <<item>> \o SubSeq(arr, p, Len(arr))

\* SortedList.remove: delete one occurrence of the item
SortedRemove(arr, item) ==
    LET p == CHOOSE i \in 1 .. Len(arr) :
                 /\ arr[i] = item
                 /\ \A j \in 1 .. (i - 1) : arr[j] # item
    IN  SubSeq(arr, 1, p - 1) \o SubSeq(arr, p + 1, Len(arr))

\* ArraySortedList.is_full for a list built with the given capacity
SortedIsFull(arr, capacity) == Len(arr) >= capacity

----------------------------------------------------------------------------
(* SequenceLayerStore *)

\* ArraySortedList(len(get_layers()))
SequenceCapacity == RegistrySlots

\* SequenceLayerStore.add
SequenceLayerStore_add(arr, layer) ==
    IF SortedIsFull(arr, SequenceCapacity)
    THEN [arr |-> arr, ret |-> "False"]
    ELSE IF ~Contains(arr, ListItem(TRUE, layer))
    THEN [arr |-> SortedAdd(arr, ListItem(TRUE, layer)), ret |-> "True"]
    ELSE IF Contains(arr, ListItem(FALSE, layer))
    THEN [arr |-> SortedAdd(SortedRemove(arr, ListItem(FALSE, layer)),
                            ListItem(TRUE, layer)),
          ret |-> "True"]
    ELSE [arr |-> arr, ret |-> "False"]

\* SequenceLayerStore.erase
SequenceLayerStore_erase(arr, layer) ==
    IF Len(arr) = 0
    THEN [arr |-> arr, ret |-> "False"]
    ELSE IF Contains(arr, ListItem(TRUE, layer))
    THEN [arr |-> SortedAdd(SortedRemove(arr, ListItem(TRUE, layer)),
                            ListItem(FALSE, layer)),
          ret |-> "True"]
    ELSE [arr |-> arr, ret |-> "False"]

\* the loop of SequenceLayerStore.get_color over the elements from position i on
RECURSIVE SequenceColorFrom(_, _, _)
SequenceColorFrom(arr, i, start) ==
    IF i > Len(arr)
    THEN start
    ELSE SequenceColorFrom(arr, i + 1,
             IF arr[i].value = TRUE /\ arr[i].key \in Layers
             THEN Apply(arr[i].key, start)
             ELSE start)

\* SequenceLayerStore.get_color
SequenceLayerStore_get_color(arr, start) ==
    IF Len(arr) = 0 THEN start ELSE SequenceColorFrom(arr, 1, start)

\* the loop of SequenceLayerStore.special that fills lexiArr
RECURSIVE LexiArrFrom(_, _, _)
LexiArrFrom(arr, i, lexiArr) ==
    IF i > Len(arr)
    THEN lexiArr
    ELSE LexiArrFrom(arr, i + 1,
             IF arr[i].value = TRUE /\ arr[i].key \in Layers
             THEN SortedAdd(lexiArr, ListItem(arr[i].key, LayerName(arr[i].key)))
             ELSE lexiArr)

\* the index special() erases in a lexiArr of n > 0 elements (0-based)
DelIndex(n) ==
    IF n > 1
    THEN (IF n % 2 = 0 THEN (n \div 2) - 1 ELSE n \div 2)
    ELSE 0

\* SequenceLayerStore.special
SequenceLayerStore_special(arr) ==
    IF Len(arr) # 0
    THEN LET lexiArr == LexiArrFrom(arr, 1, << >>)
         IN  IF Len(lexiArr) # 0
             THEN SequenceLayerStore_erase(arr, lexiArr[DelIndex(Len(lexiArr)) + 1].value).arr
             ELSE arr
    ELSE arr

SeqFrame ==
    UNCHANGED <<layerCircularQueue, tempCircularQueue, layerStack, is_special, held, specialCalls,
                trackerVars>>

SeqAdd ==
    \E layer \in Layers :
        LET r == SequenceLayerStore_add(layerArr, layer)
        IN  /\ layerArr' = r.arr
            /\ op' = "add" /\ arg' = layer /\ ret' = r.ret
            /\ before' = layerArr
            /\ color' = BaseColor
            /\ SeqFrame

SeqErase ==
    \E layer \in Layers :
        LET r == SequenceLayerStore_erase(layerArr, layer)
        IN  /\ layerArr' = r.arr
            /\ op' = "erase" /\ arg' = layer /\ ret' = r.ret
            /\ before' = layerArr
            /\ color' = BaseColor
            /\ SeqFrame

SeqSpecial ==
    /\ layerArr' = SequenceLayerStore_special(layerArr)
    /\ op' = "special" /\ arg' = NoLayer /\ ret' = "None"
    /\ before' = layerArr
    /\ color' = BaseColor
    /\ SeqFrame

SeqGetColor ==
    /\ color' = SequenceLayerStore_get_color(layerArr, BaseColor)
    /\ op' = "get_color" /\ arg' = NoLayer /\ ret' = "None"
    /\ before' = layerArr
    /\ UNCHANGED layerArr
    /\ SeqFrame

----------------------------------------------------------------------------
(* data_structures: CircularQueue and ArrayStack, as bounded sequences.     *)
(* A queue is served at its head and appended to at its end; a stack is     *)
(* pushed and popped at its end.                                            *)

QueueIsEmpty(queue) == Len(queue) = 0

QueueIsFull(queue, capacity) == Len(queue) >= capacity

QueueAppend(queue, item) == Append(queue, item)

\* CircularQueue.serve: the served item and the queue left
QueueServe(queue) == [item |-> Head(queue), queue |-> Tail(queue)]

StackIsEmpty(stack) == Len(stack) = 0

StackIsFull(stack, capacity) == Len(stack) >= capacity

StackPush(stack, item) == Append(stack, item)

StackPeek(stack) == stack[Len(stack)]

\* ArrayStack.pop: the popped item and the stack left
StackPop(stack) == [item |-> stack[Len(stack)], stack |-> SubSeq(stack, 1, Len(stack) - 1)]

----------------------------------------------------------------------------
(* AdditiveLayerStore *)

\* AdditiveLayerStore.add refusing one layer too early
AdditiveLayerStore_add_OffByOne(queue, layer) ==
    IF QueueIsFull(queue, AdditiveCapacity - 1)
    THEN [queue |-> queue, ret |-> "False"]
    ELSE [queue |-> QueueAppend(queue, layer), ret |-> "True"]

\* AdditiveLayerStore.add
AdditiveLayerStore_add(queue, layer) ==
    IF QueueIsFull(queue, AdditiveCapacity)
    THEN [queue |-> queue, ret |-> "False"]
    ELSE [queue |-> QueueAppend(queue, layer), ret |-> "True"]

\* first loop of AdditiveLayerStore.get_color: serve every layer into the
\* temporary queue and apply it
RECURSIVE ApplyAndStash(_, _, _)
ApplyAndStash(queue, temp, start) ==
    IF QueueIsEmpty(queue)
    THEN [queue |-> queue, temp |-> temp, start |-> start]
    ELSE LET s == QueueServe(queue)
         IN  ApplyAndStash(s.queue, QueueAppend(temp, s.item), Apply(s.item, start))

\* second loop of AdditiveLayerStore.get_color: serve the temporary queue back
RECURSIVE Restore(_, _)
Restore(queue, temp) ==
    IF QueueIsEmpty(temp)
    THEN [queue |-> queue, temp |-> temp]
    ELSE LET s == QueueServe(temp)
         IN  Restore(QueueAppend(queue, s.item), s.queue)

\* AdditiveLayerStore.get_color without the loop that serves the layers back
AdditiveLayerStore_get_color_Draining(queue, temp, start) ==
    IF QueueIsEmpty(queue)
    THEN [queue |-> queue, temp |-> temp, color |-> start]
    ELSE LET a == ApplyAndStash(queue, temp, start)
         IN  [queue |-> a.queue, temp |-> a.temp, color |-> a.start]

\* AdditiveLayerStore.get_color
AdditiveLayerStore_get_color(queue, temp, start) ==
    IF QueueIsEmpty(queue)
    THEN [queue |-> queue, temp |-> temp, color |-> start]
    ELSE LET a == ApplyAndStash(queue, temp, start)
             r == Restore(a.queue, a.temp)
         IN  [queue |-> r.queue, temp |-> r.temp, color |-> a.start]

\* AdditiveLayerStore.erase removing the layer it is given instead of the oldest
AdditiveLayerStore_erase_Selected(queue, layer) ==
    IF QueueIsEmpty(queue)
    THEN [queue |-> queue, ret |-> "False"]
    ELSE [queue |-> SelectSeq(queue, LAMBDA l : l # layer), ret |-> "True"]

\* AdditiveLayerStore.erase
AdditiveLayerStore_erase(queue, layer) ==
    IF QueueIsEmpty(queue)
    THEN [queue |-> queue, ret |-> "False"]
    ELSE [queue |-> QueueServe(queue).queue, ret |-> "True"]

\* first loop of AdditiveLayerStore.special: serve every layer onto the stack
RECURSIVE LoadStack(_, _)
LoadStack(queue, stack) ==
    IF QueueIsEmpty(queue)
    THEN [queue |-> queue, stack |-> stack]
    ELSE LET s == QueueServe(queue)
         IN  LoadStack(s.queue, StackPush(stack, s.item))

\* second loop of AdditiveLayerStore.special: pop the stack into the queue
RECURSIVE UnloadStack(_, _)
UnloadStack(queue, stack) ==
    IF StackIsEmpty(stack)
    THEN queue
    ELSE LET p == StackPop(stack)
         IN  UnloadStack(QueueAppend(queue, p.item), p.stack)

\* AdditiveLayerStore.special going through a second queue instead of a stack
AdditiveLayerStore_special_ViaQueue(queue) ==
    IF ~QueueIsEmpty(queue)
    THEN LET l == LoadStack(queue, << >>)
         IN  Restore(l.queue, l.stack).queue
    ELSE queue

\* AdditiveLayerStore.special
AdditiveLayerStore_special(queue) ==
    IF ~QueueIsEmpty(queue)
    THEN LET l == LoadStack(queue, << >>)
         IN  UnloadStack(l.queue, l.stack)
    ELSE queue

AddFrame == UNCHANGED <<layerArr, layerStack, is_special, held, specialCalls, trackerVars>>

AddAdd ==
    \E layer \in Layers :
        LET r == AdditiveLayerStore_add(layerCircularQueue, layer)
        IN  /\ layerCircularQueue' = r.queue
            /\ op' = "add" /\ arg' = layer /\ ret' = r.ret
            /\ before' = layerCircularQueue
            /\ color' = BaseColor
            /\ UNCHANGED tempCircularQueue
            /\ AddFrame

AddErase ==
    \E layer \in Layers :
        LET r == AdditiveLayerStore_erase(layerCircularQueue, layer)
        IN  /\ layerCircularQueue' = r.queue
            /\ op' = "erase" /\ arg' = layer /\ ret' = r.ret
            /\ before' = layerCircularQueue
            /\ color' = BaseColor
            /\ UNCHANGED tempCircularQueue
            /\ AddFrame

AddSpecial ==
    /\ layerCircularQueue' = AdditiveLayerStore_special(layerCircularQueue)
    /\ op' = "special" /\ arg' = NoLayer /\ ret' = "None"
    /\ before' = layerCircularQueue
    /\ color' = BaseColor
    /\ UNCHANGED tempCircularQueue
    /\ AddFrame

AddGetColor ==
    LET r == AdditiveLayerStore_get_color(layerCircularQueue, tempCircularQueue, BaseColor)
    IN  /\ layerCircularQueue' = r.queue
        /\ tempCircularQueue' = r.temp
        /\ color' = r.color
        /\ op' = "get_color" /\ arg' = NoLayer /\ ret' = "None"
        /\ before' = layerCircularQueue
        /\ AddFrame

----------------------------------------------------------------------------
(* SetLayerStore *)

\* ArrayStack(1)
SetCapacity == 1

\* layers.invert, one of the registered layers
invert == NumLayers - 1

\* SetLayerStore.add that never replaces a layer already held
SetLayerStore_add_KeepsFirst(stack, layer) ==
    IF StackIsFull(stack, SetCapacity)
    THEN [stack |-> stack, ret |-> "False"]
    ELSE [stack |-> StackPush(stack, layer), ret |-> "True"]

\* SetLayerStore.add
SetLayerStore_add(stack, layer) ==
    IF StackIsFull(stack, SetCapacity)
    THEN IF StackPeek(stack) = layer
         THEN [stack |-> stack, ret |-> "False"]
         ELSE [stack |-> StackPush(StackPop(stack).stack, layer), ret |-> "True"]
    ELSE [stack |-> StackPush(stack, layer), ret |-> "True"]

\* SetLayerStore.get_color
SetLayerStore_get_color(stack, special, start) ==
    IF StackIsFull(stack, SetCapacity)
    THEN IF special
         THEN Apply(invert, Apply(StackPeek(stack), start))
         ELSE Apply(StackPeek(stack), start)
    ELSE IF special
         THEN Apply(invert, start)
         ELSE start

\* SetLayerStore.erase
SetLayerStore_erase(stack, layer) ==
    IF StackIsFull(stack, SetCapacity)
    THEN [stack |-> StackPop(stack).stack, ret |-> "True"]
    ELSE [stack |-> stack, ret |-> "False"]

\* SetLayerStore.special that switches the inversion on and never off again
SetLayerStore_special_SetOnly(special) ==
    IF special THEN TRUE ELSE TRUE

\* SetLayerStore.special
SetLayerStore_special(special) ==
    IF special THEN FALSE ELSE TRUE

SetFrame == UNCHANGED <<layerArr, layerCircularQueue, tempCircularQueue, trackerVars>>

SetAdd ==
    \E layer \in Layers :
        LET r == SetLayerStore_add(layerStack, layer)
        IN  /\ layerStack' = r.stack
            /\ op' = "add" /\ arg' = layer /\ ret' = r.ret
            /\ before' = <<layerStack, is_special>>
            /\ held' = layer
            /\ color' = BaseColor
            /\ UNCHANGED <<is_special, specialCalls>>
            /\ SetFrame

SetErase ==
    \E layer \in Layers :
        LET r == SetLayerStore_erase(layerStack, layer)
        IN  /\ layerStack' = r.stack
            /\ op' = "erase" /\ arg' = layer /\ ret' = r.ret
            /\ before' = <<layerStack, is_special>>
            /\ held' = NoLayer
            /\ color' = BaseColor
            /\ UNCHANGED <<is_special, specialCalls>>
            /\ SetFrame

SetSpecial ==
    /\ specialCalls < MaxSpecialCalls
    /\ specialCalls' = specialCalls + 1
    /\ is_special' = SetLayerStore_special(is_special)
    /\ op' = "special" /\ arg' = NoLayer /\ ret' = "None"
    /\ before' = <<layerStack, is_special>>
    /\ color' = BaseColor
    /\ UNCHANGED <<layerStack, held>>
    /\ SetFrame

SetGetColor ==
    /\ color' = SetLayerStore_get_color(layerStack, is_special, BaseColor)
    /\ op' = "get_color" /\ arg' = NoLayer /\ ret' = "None"
    /\ before' = <<layerStack, is_special>>
    /\ UNCHANGED <<layerStack, is_special, held, specialCalls>>
    /\ SetFrame

----------------------------------------------------------------------------
(* Insertion into a full bounded structure: the structure refuses the item *)
(* and keeps its content.                                                  *)

\* ArrayStack.push on a stack of the given capacity
BoundedPush(stack, item, capacity) ==
    IF StackIsFull(stack, capacity) THEN stack ELSE StackPush(stack, item)

\* CircularQueue.append on a queue of the given capacity
BoundedAppend(queue, item, capacity) ==
    IF QueueIsFull(queue, capacity) THEN queue ELSE QueueAppend(queue, item)

----------------------------------------------------------------------------
(* UndoTracker (src/undo.py) *)

Actions == 1 .. NumActions

\* None, returned by undo and redo when there is nothing to do
NoAction == 0

\* UndoTracker.add_action that evicts the oldest action of a full stack
UndoTracker_add_action_Evicting(undo, action) ==
    IF ~StackIsFull(undo, UndoCapacity)
    THEN BoundedPush(undo, action, UndoCapacity)
    ELSE BoundedPush(Tail(undo), action, UndoCapacity)

\* UndoTracker.add_action
UndoTracker_add_action(undo, action) ==
    IF ~StackIsFull(undo, UndoCapacity)
    THEN BoundedPush(undo, action, UndoCapacity)
    ELSE undo

\* UndoTracker.undo that peeks at the top action instead of popping it
UndoTracker_undo_Peeking(undo, redo) ==
    IF ~StackIsEmpty(undo)
    THEN [undoArr |-> undo,
          redoArr |-> BoundedPush(redo, StackPeek(undo), UndoCapacity),
          calls   |-> << <<"undo_apply", StackPeek(undo)>> >>,
          ret     |-> StackPeek(undo)]
    ELSE [undoArr |-> undo, redoArr |-> redo, calls |-> << >>, ret |-> NoAction]

\* UndoTracker.undo
UndoTracker_undo(undo, redo) ==
    IF ~StackIsEmpty(undo)
    THEN LET p == StackPop(undo)
         IN  [undoArr |-> p.stack,
              redoArr |-> BoundedPush(redo, p.item, UndoCapacity),
              calls   |-> << <<"undo_apply", p.item>> >>,
              ret     |-> p.item]
    ELSE [undoArr |-> undo, redoArr |-> redo, calls |-> << >>, ret |-> NoAction]

\* UndoTracker.redo
UndoTracker_redo(undo, redo) ==
    IF ~StackIsEmpty(redo)
    THEN LET p == StackPop(redo)
         IN  [undoArr |-> BoundedPush(undo, p.item, UndoCapacity),
              redoArr |-> p.stack,
              calls   |-> << <<"redo_apply", p.item>> >>,
              ret     |-> p.item]
    ELSE [undoArr |-> undo, redoArr |-> redo, calls |-> << >>, ret |-> NoAction]

UndoFrame ==
    UNCHANGED <<layerArr, layerCircularQueue, tempCircularQueue, layerStack, is_special,
                color, held, specialCalls, redoQueue, undoBool, recorded, played>>

UndoAddAction ==
    \E action \in Actions :
        /\ undoArr' = UndoTracker_add_action(undoArr, action)
        /\ op' = "add_action" /\ arg' = action /\ ret' = "None"
        /\ retAction' = NoAction /\ calls' = << >>
        /\ before' = <<undoArr, redoArr>>
        /\ added' = added \cup {action}
        /\ repeated' = (repeated \/ action \in added)
        /\ addOrder' = (IF action \in added THEN addOrder ELSE Append(addOrder, action))
        /\ UNCHANGED redoArr
        /\ UndoFrame

UndoUndo ==
    LET r == UndoTracker_undo(undoArr, redoArr)
    IN  /\ undoArr' = r.undoArr
        /\ redoArr' = r.redoArr
        /\ calls' = r.calls
        /\ retAction' = r.ret
        /\ op' = "undo" /\ arg' = NoAction /\ ret' = "None"
        /\ before' = <<undoArr, redoArr>>
        /\ UNCHANGED <<added, repeated, addOrder>>
        /\ UndoFrame

UndoRedo ==
    LET r == UndoTracker_redo(undoArr, redoArr)
    IN  /\ undoArr' = r.undoArr
        /\ redoArr' = r.redoArr
        /\ calls' = r.calls
        /\ retAction' = r.ret
        /\ op' = "redo" /\ arg' = NoAction /\ ret' = "None"
        /\ before' = <<undoArr, redoArr>>
        /\ UNCHANGED <<added, repeated, addOrder>>
        /\ UndoFrame

----------------------------------------------------------------------------
(* ReplayTracker (src/replay.py) *)

\* ReplayTracker.add_action that makes room in full queues by serving the oldest entry
ReplayTracker_add_action_Overwriting(queue, flags, action, is_undo) ==
    IF QueueIsFull(queue, ReplayCapacity)
    THEN [undoBool  |-> QueueAppend(QueueServe(flags).queue, is_undo),
          redoQueue |-> QueueAppend(QueueServe(queue).queue, action)]
    ELSE [undoBool  |-> QueueAppend(flags, is_undo),
          redoQueue |-> QueueAppend(queue, action)]

\* ReplayTracker.add_action that records a flag only for an undo
ReplayTracker_add_action_UndoFlagOnly(queue, flags, action, is_undo) ==
    [undoBool  |-> IF is_undo
                   THEN BoundedAppend(flags, TRUE, ReplayCapacity)
                   ELSE flags,
     redoQueue |-> BoundedAppend(queue, action, ReplayCapacity)]

\* ReplayTracker.add_action
ReplayTracker_add_action(queue, flags, action, is_undo) ==
    [undoBool  |-> IF is_undo
                   THEN BoundedAppend(flags, TRUE, ReplayCapacity)
                   ELSE BoundedAppend(flags, FALSE, ReplayCapacity),
     redoQueue |-> BoundedAppend(queue, action, ReplayCapacity)]

\* ReplayTracker.play_next_action with the two branches on the flag swapped
ReplayTracker_play_next_action_Swapped(queue, flags) ==
    IF ~QueueIsEmpty(queue)
    THEN LET undo_action == QueueServe(flags)
             redo_action == QueueServe(queue)
         IN  [undoBool  |-> undo_action.queue,
              redoQueue |-> redo_action.queue,
              calls     |-> IF undo_action.item
                            THEN << <<"redo_apply", redo_action.item>> >>
                            ELSE << <<"undo_apply", redo_action.item>> >>,
              ret       |-> "False"]
    ELSE [undoBool |-> flags, redoQueue |-> queue, calls |-> << >>, ret |-> "True"]

\* ReplayTracker.play_next_action
ReplayTracker_play_next_action(queue, flags) ==
    IF ~QueueIsEmpty(queue)
    THEN LET undo_action == QueueServe(flags)
             redo_action == QueueServe(queue)
         IN  [undoBool  |-> undo_action.queue,
              redoQueue |-> redo_action.queue,
              calls     |-> IF undo_action.item
                            THEN << <<"undo_apply", redo_action.item>> >>
                            ELSE << <<"redo_apply", redo_action.item>> >>,
              ret       |-> "False"]
    ELSE [undoBool |-> flags, redoQueue |-> queue, calls |-> << >>, ret |-> "True"]

ReplayFrame ==
    UNCHANGED <<layerArr, layerCircularQueue, tempCircularQueue, layerStack, is_special,
                color, held, specialCalls, undoArr, redoArr, retAction, added, repeated,
                addOrder>>

ReplayAddAction ==
    \E action \in Actions, is_undo \in BOOLEAN :
        LET r == ReplayTracker_add_action(redoQueue, undoBool, action, is_undo)
        IN  /\ Len(recorded) < MaxRecorded \/ QueueIsFull(redoQueue, ReplayCapacity)
            /\ redoQueue' = r.redoQueue
            /\ undoBool' = r.undoBool
            /\ op' = "add_action" /\ arg' = <<action, is_undo>> /\ ret' = "None"
            /\ calls' = << >>
            /\ before' = <<redoQueue, undoBool>>
            /\ recorded' = (IF QueueIsFull(redoQueue, ReplayCapacity)
                            THEN recorded
                            ELSE Append(recorded, <<action, is_undo>>))
            /\ UNCHANGED played
            /\ ReplayFrame

ReplayStartReplay ==
    /\ op' = "start_replay" /\ arg' = NoAction /\ ret' = "None"
    /\ calls' = << >>
    /\ before' = <<redoQueue, undoBool>>
    /\ UNCHANGED <<redoQueue, undoBool, recorded, played>>
    /\ ReplayFrame

ReplayPlayNextAction ==
    LET r == ReplayTracker_play_next_action(redoQueue, undoBool)
    IN  /\ redoQueue' = r.redoQueue
        /\ undoBool' = r.undoBool
        /\ calls' = r.calls
        /\ op' = "play_next_action" /\ arg' = NoAction /\ ret' = r.ret
        /\ before' = <<redoQueue, undoBool>>
        /\ played' = played \o r.calls
        /\ UNCHANGED recorded
        /\ ReplayFrame

Init ==
    /\ layerArr = << >>
    /\ layerCircularQueue = << >>
    /\ tempCircularQueue = << >>
    /\ layerStack = << >>
    /\ is_special = FALSE
    /\ op = "init" /\ arg = NoLayer /\ ret = "None"
    /\ color = BaseColor
    /\ before = << >>
    /\ held = NoLayer
    /\ specialCalls = 0
    /\ undoArr = << >>
    /\ redoArr = << >>
    /\ retAction = NoAction
    /\ calls = << >>
    /\ added = {}
    /\ repeated = FALSE
    /\ addOrder = << >>
    /\ redoQueue = << >>
    /\ undoBool = << >>
    /\ recorded = << >>
    /\ played = << >>

SeqNext == SeqAdd \/ SeqErase \/ SeqSpecial \/ SeqGetColor

SeqSpec == Init /\ [][SeqNext]_vars

AddNext == AddAdd \/ AddErase \/ AddSpecial \/ AddGetColor

AddSpec == Init /\ [][AddNext]_vars

SetNext == SetAdd \/ SetErase \/ SetSpecial \/ SetGetColor

SetSpec == Init /\ [][SetNext]_vars

UndoNext == UndoAddAction \/ UndoUndo \/ UndoRedo

UndoSpec == Init /\ [][UndoNext]_vars

ReplayNext == ReplayAddAction \/ ReplayStartReplay \/ ReplayPlayNextAction

ReplaySpec == Init /\ [][ReplayNext]_vars

----------------------------------------------------------------------------
(* Properties of SequenceLayerStore (checked under SeqSpec) *)

\* status of a layer type as the store's methods see it: get_color and the
\* __contains__ tests of add and erase look for an entry whose value is True
Status(arr, layer) ==
    IF Contains(arr, ListItem(TRUE, layer)) THEN "applying"
    ELSE IF Contains(arr, ListItem(FALSE, layer)) THEN "not applying"
    ELSE "absent"

ApplyingSet(arr) == {l \in Layers : Status(arr, l) = "applying"}

\* every layer of S applied once to start, in ascending index order from i on
RECURSIVE ApplyAscending(_, _, _)
ApplyAscending(S, i, start) ==
    IF i >= NumLayers
    THEN start
    ELSE ApplyAscending(S, i + 1, IF i \in S THEN Apply(i, start) ELSE start)

\* the layer of S at 0-based position k when S is sorted ascending by name
NameAt(S, k) ==
    CHOOSE l \in S : Cardinality({m \in S : LayerName(m) < LayerName(l)}) = k

\* the median position the specification gives for n applying layers
MedianPosition(n) == IF n % 2 = 0 THEN (n \div 2) - 1 ELSE n \div 2

\* C1: add(L) while L's type is applying returns false and leaves the store
\* (and so get_color) unchanged; add(L) while L's type is not applying or
\* absent makes it applying and returns true.
C1_AddContract ==
    op = "add" =>
        IF Status(before, arg) = "applying"
        THEN /\ ret = "False"
             /\ layerArr = before
             /\ SequenceLayerStore_get_color(layerArr, BaseColor)
                    = SequenceLayerStore_get_color(before, BaseColor)
        ELSE /\ ret = "True"
             /\ Status(layerArr, arg) = "applying"

\* C2: get_color(base) is base with every applying layer type applied exactly
\* once in ascending registry index order, so it depends only on the set of
\* applying types; get_color does not change the store.
C2_GetColorAscendingOnce ==
    op = "get_color" =>
        /\ color = ApplyAscending(ApplyingSet(layerArr), 0, BaseColor)
        /\ layerArr = before

\* C3: with n >= 1 applying types, special() turns exactly the type at
\* position (n/2)-1 (n even) or n//2 (n odd) of the applying types sorted by
\* name from applying to not applying and every other type keeps its status;
\* with no applying type it changes nothing.
C3_SpecialErasesMedian ==
    op = "special" =>
        LET A == ApplyingSet(before)
            n == Cardinality(A)
        IN  IF n = 0
            THEN layerArr = before
            ELSE LET median == NameAt(A, MedianPosition(n))
                 IN  /\ Status(layerArr, median) = "not applying"
                     /\ \A l \in Layers \ {median} :
                            Status(layerArr, l) = Status(before, l)

\* C4: add returns false for lack of room only when the type is not tracked
\* and the store is full; a type tracked as not applying is always set to
\* applying by add, which then returns true, also when every type is tracked.
C4_AddFailsOnlyForNewType ==
    op = "add" =>
        /\ (ret = "False" /\ Status(before, arg) # "applying")
               => (Status(before, arg) = "absent"
                   /\ SortedIsFull(before, SequenceCapacity))
        /\ Status(before, arg) = "not applying"
               => (ret = "True" /\ Status(layerArr, arg) = "applying")

\* C5: erase(L) returns true and sets L's type to not applying when it is
\* applying, returns false with the store unchanged otherwise, and never
\* changes the status of another type.
C5_EraseContract ==
    op = "erase" =>
        /\ IF Status(before, arg) = "applying"
           THEN ret = "True" /\ Status(layerArr, arg) = "not applying"
           ELSE ret = "False" /\ layerArr = before
        /\ \A l \in Layers \ {arg} : Status(layerArr, l) = Status(before, l)

----------------------------------------------------------------------------
(* Properties of AdditiveLayerStore (checked under AddSpec) *)

\* the layers of seq applied to start one after the other from position i on
RECURSIVE ApplyInOrder(_, _, _)
ApplyInOrder(seq, i, start) ==
    IF i > Len(seq) THEN start ELSE ApplyInOrder(seq, i + 1, Apply(seq[i], start))

Reversed(seq) == [i \in 1 .. Len(seq) |-> seq[Len(seq) + 1 - i]]

Elements(seq) == {seq[i] : i \in 1 .. Len(seq)}

\* C6: erase(X) on a non-empty store removes exactly the layer at the oldest
\* end of the stored order, whatever X is, returns true and keeps the other
\* layers in order; on an empty store it returns false and changes nothing.
C6_EraseRemovesOldest ==
    op = "erase" =>
        IF Len(before) > 0
        THEN /\ ret = "True"
             /\ layerCircularQueue = SubSeq(before, 2, Len(before))
        ELSE /\ ret = "False"
             /\ layerCircularQueue = before

\* an erase whose argument is not the oldest layer removed the oldest layer
\* and left two others, different from each other, in place
C6_Witness ==
    /\ op = "erase" /\ ret = "True"
    /\ Len(before) = 3
    /\ before[1] # arg
    /\ before[2] # before[3]
    /\ layerCircularQueue = <<before[2], before[3]>>

\* C7: get_color applies the stored layers oldest to newest and leaves the
\* store as it was (same layers, order and length), with the temporary queue
\* empty, for every store size up to the capacity.
C7_GetColorKeepsStore ==
    op = "get_color" =>
        /\ color = ApplyInOrder(before, 1, BaseColor)
        /\ layerCircularQueue = before
        /\ tempCircularQueue = << >>

\* get_color was called on a store filled to capacity whose first and last
\* layers differ
C7_Witness ==
    /\ op = "get_color"
    /\ Len(before) = AdditiveCapacity
    /\ before[1] # before[Len(before)]
    /\ Len(color) = AdditiveCapacity

\* C8: special reverses the stored sequence (same layers, same length), is a
\* no-op on an empty store, and a second special right after the first
\* restores the order the store had before the first.
C8_SpecialReverses ==
    /\ [](op = "special" => layerCircularQueue = Reversed(before))
    /\ [][(op = "special" /\ op' = "special") => layerCircularQueue' = before]_vars

\* special was called on a store filled to capacity that is not a palindrome
C8_Witness ==
    /\ op = "special"
    /\ Len(before) = AdditiveCapacity
    /\ before[1] # before[Len(before)]
    /\ layerCircularQueue # before

\* C9: add(L) below capacity appends L at the newest end and returns true,
\* also when L is already stored; at capacity it returns false and changes
\* nothing; the size never exceeds the capacity.
C9_AddCapacity ==
    /\ Len(layerCircularQueue) <= AdditiveCapacity
    /\ op = "add" =>
           IF Len(before) < AdditiveCapacity
           THEN ret = "True" /\ layerCircularQueue = Append(before, arg)
           ELSE ret = "False" /\ layerCircularQueue = before

\* an add was refused at capacity by a store that holds the same layer twice
C9_Witness ==
    /\ op = "add" /\ ret = "False"
    /\ Len(layerCircularQueue) = AdditiveCapacity
    /\ Cardinality(Elements(layerCircularQueue)) < Len(layerCircularQueue)

----------------------------------------------------------------------------
(* Properties of SetLayerStore (checked under SetSpec) *)

\* C10: the store holds at most one layer, the argument of the most recent add
\* if no erase came after it and none otherwise; erase clears what is held
\* whatever its argument and returns true iff a layer was held; add(L)
\* returns false exactly when L is the layer held, and then the state and the
\* get_color output are unchanged.
C10_SetHoldsLastAdded ==
    /\ Len(layerStack) <= 1
    /\ layerStack = (IF held = NoLayer THEN << >> ELSE <<held>>)
    /\ op = "erase" =>
           /\ layerStack = << >>
           /\ (ret = "True") <=> (before[1] # << >>)
    /\ op = "add" =>
           /\ (ret = "False") <=> (before[1] = <<arg>>)
           /\ ret = "False" =>
                  /\ <<layerStack, is_special>> = before
                  /\ SetLayerStore_get_color(layerStack, is_special, BaseColor)
                         = SetLayerStore_get_color(before[1], before[2], BaseColor)

\* an add replaced the layer held by a different one
C10_Witness ==
    /\ op = "add" /\ ret = "True"
    /\ Len(before[1]) = 1
    /\ before[1] # <<arg>>
    /\ layerStack = <<arg>>

\* the colour C11 gives for a store holding stack after n special() calls
SetExpectedColor(stack, n, start) ==
    LET applied == IF Len(stack) = 0 THEN start ELSE Apply(stack[1], start)
    IN  IF n % 2 = 1 THEN Apply(invert, applied) ELSE applied

\* C11: get_color(base) is the held layer applied to base (base itself when
\* no layer is held), followed by invert exactly when special() was called an
\* odd number of times; special() only toggles is_special and keeps the held
\* layer, add and erase never change is_special, get_color changes nothing.
C11_SetColorAndSpecial ==
    /\ is_special <=> (specialCalls % 2 = 1)
    /\ op = "get_color" =>
           /\ color = SetExpectedColor(layerStack, specialCalls, BaseColor)
           /\ <<layerStack, is_special>> = before
    /\ op = "special" =>
           /\ layerStack = before[1]
           /\ is_special = ~before[2]
    /\ op \in {"add", "erase"} => is_special = before[2]

\* get_color on a held layer after special() was called on, off and on again
C11_Witness ==
    /\ op = "get_color"
    /\ specialCalls = 3
    /\ Len(layerStack) = 1
    /\ color = <<layerStack[1], invert>>

----------------------------------------------------------------------------
(* Entry invariant of SequenceLayerStore (checked under SeqSpec) *)

\* C20: layerArr holds at most one status entry per layer index (never an
\* applying and a not applying entry of one index, never two equal entries),
\* so the number of entries never exceeds the number of layer types.
C20_OneEntryPerType ==
    /\ \A l \in Layers :
           Cardinality({i \in 1 .. Len(layerArr) : layerArr[i].key = l}) <= 1
    /\ Len(layerArr) <= NumLayers

----------------------------------------------------------------------------
(* Properties of UndoTracker (checked under UndoSpec) *)

Top(stack) == stack[Len(stack)]

WithoutTop(stack) == SubSeq(stack, 1, Len(stack) - 1)

Occurrences(seq, x) == Cardinality({i \in 1 .. Len(seq) : seq[i] = x})

\* C12: undo on an empty undo stack returns None, calls nothing and changes
\* nothing; otherwise it removes the top action of the undo stack, pushes it
\* on top of the redo stack, calls its undo_apply once and returns it.
C12_UndoContract ==
    op = "undo" =>
        IF Len(before[1]) = 0
        THEN /\ retAction = NoAction
             /\ calls = << >>
             /\ <<undoArr, redoArr>> = before
        ELSE /\ undoArr = WithoutTop(before[1])
             /\ redoArr = Append(before[2], Top(before[1]))
             /\ calls = << <<"undo_apply", Top(before[1])>> >>
             /\ retAction = Top(before[1])

\* C13: an undo on a non-empty undo stack followed at once by a redo returns
\* the same action from both calls, calls undo_apply then redo_apply on it
\* and leaves both stacks as they were before the undo; a redo on an empty
\* redo stack returns None and changes nothing.
C13_UndoRedoRoundTrip ==
    [][/\ (op' = "redo" /\ Len(redoArr) = 0) =>
              /\ retAction' = NoAction
              /\ calls' = << >>
              /\ <<undoArr', redoArr'>> = <<undoArr, redoArr>>
       /\ (op = "undo" /\ Len(before[1]) > 0 /\ op' = "redo") =>
              /\ retAction = Top(before[1])
              /\ calls = << <<"undo_apply", retAction>> >>
              /\ retAction' = retAction
              /\ calls' = << <<"redo_apply", retAction>> >>
              /\ <<undoArr', redoArr'>> = before]_vars

\* C14: add_action pushes the action on the undo stack when it is not full
\* and drops it when it is full; the redo stack is unchanged in both cases.
C14_AddActionKeepsRedo ==
    op = "add_action" =>
        /\ redoArr = before[2]
        /\ undoArr = (IF Len(before[1]) < UndoCapacity
                      THEN Append(before[1], arg)
                      ELSE before[1])

\* an action was dropped by a full undo stack while undone actions wait
\* in the redo stack
C14_Witness ==
    /\ op = "add_action"
    /\ Len(before[1]) = UndoCapacity
    /\ undoArr = before[1]
    /\ Len(redoArr) > 0

\* C15: when no action was passed to add_action twice, every action is in at
\* most one of the two stacks and at most once in it.
C15_ActionInOneStack ==
    ~repeated =>
        \A a \in Actions : Occurrences(undoArr, a) + Occurrences(redoArr, a) <= 1

\* an undo moved an action while both stacks hold actions, all recorded once
C15_Witness ==
    /\ ~repeated
    /\ op = "undo" /\ retAction # NoAction
    /\ Len(undoArr) > 0
    /\ Len(redoArr) > 0

\* C16: undo called while the redo stack is full, and redo called while the
\* undo stack is full, return None and leave both stacks unchanged.
C16_PushBackOverflowAbsorbed ==
    /\ (op = "undo" /\ Len(before[1]) > 0 /\ Len(before[2]) >= UndoCapacity) =>
           /\ retAction = NoAction
           /\ <<undoArr, redoArr>> = before
    /\ (op = "redo" /\ Len(before[2]) > 0 /\ Len(before[1]) >= UndoCapacity) =>
           /\ retAction = NoAction
           /\ <<undoArr, redoArr>> = before

----------------------------------------------------------------------------
(* Properties of ReplayTracker (checked under ReplaySpec) *)

\* the call that replaying a recorded <<action, is_undo>> pair has to make
ReplayCall(pair) == <<IF pair[2] THEN "undo_apply" ELSE "redo_apply", pair[1]>>

\* the recorded pairs that were not played yet
Pending == SubSeq(recorded, Len(played) + 1, Len(recorded))

\* C17: the i-th effective play_next_action returns false and calls exactly
\* one method on the i-th recorded action, undo_apply if its flag is true and
\* redo_apply otherwise (recording order); a call made when nothing is left
\* returns true, calls nothing and changes nothing.
C17_ReplayFifo ==
    /\ Len(played) <= Len(recorded)
    /\ \A i \in 1 .. Len(played) : played[i] = ReplayCall(recorded[i])
    /\ op = "play_next_action" =>
           IF Len(before[1]) > 0
           THEN /\ ret = "False"
                /\ Len(calls) = 1
                /\ calls[1] = played[Len(played)]
                /\ Len(redoQueue) = Len(before[1]) - 1
           ELSE /\ ret = "True"
                /\ calls = << >>
                /\ <<redoQueue, undoBool>> = before

\* actions recorded with the flags false, false, true were replayed as redo,
\* redo, undo and the fourth play_next_action returned true
C17_Witness ==
    /\ op = "play_next_action" /\ ret = "True"
    /\ Len(recorded) = 3
    /\ <<recorded[1][2], recorded[2][2], recorded[3][2]>> = <<FALSE, FALSE, TRUE>>
    /\ played = << <<"redo_apply", recorded[1][1]>>,
                   <<"redo_apply", recorded[2][1]>>,
                   <<"undo_apply", recorded[3][1]>> >>

\* C18: the action queue and the flag queue have the same length and the i-th
\* flag is the is_undo value recorded together with the i-th action.
C18_QueuesPaired ==
    /\ Len(redoQueue) = Len(undoBool)
    /\ Len(redoQueue) = Len(Pending)
    /\ \A i \in 1 .. Len(redoQueue) :
           /\ i <= Len(undoBool)
           /\ i <= Len(Pending)
           /\ redoQueue[i] = Pending[i][1]
           /\ undoBool[i] = Pending[i][2]

\* full queues whose flags differ refused one more action after an earlier
\* action had been played
C18_Witness ==
    /\ op = "add_action"
    /\ Len(played) > 0
    /\ Len(before[1]) = ReplayCapacity
    /\ Len(undoBool) = ReplayCapacity
    /\ undoBool[1] # undoBool[2]

----------------------------------------------------------------------------
(* Chronological order of UndoTracker (checked under UndoSpec) *)

\* position of an action in the order in which add_action recorded the actions
RecordedAt(a) == CHOOSE i \in 1 .. Len(addOrder) : addOrder[i] = a

\* C21: with distinct actions, the undo stack read bottom to top lists its
\* actions in the order in which add_action recorded them, so an undo reverts
\* the most recently recorded action that is still applied.
C21_UndoStackChronological ==
    ~repeated =>
        /\ \A i, j \in 1 .. Len(undoArr) :
               i < j => RecordedAt(undoArr[i]) < RecordedAt(undoArr[j])
        /\ (op = "undo" /\ retAction # NoAction) =>
               \A i \in 1 .. Len(undoArr) :
                   RecordedAt(undoArr[i]) < RecordedAt(retAction)

====
